---- MODULE Spec2Model ----
(***************************************************************************)
(* Depop native login of FlipTools (src-tauri/src/lib.rs): the session     *)
(* state DepopState, the commands open_depop_login, scan_depop_auth and    *)
(* navigate_depop_window, the token-capture accept task, and the wire      *)
(* encoding between the injected script and the local server.              *)
(*                                                                         *)
(* A string is a sequence of code points (0..255); a Rust String's len()   *)
(* is its UTF-8 length, a JavaScript string's length its number of code    *)
(* units.  Codes turns a literal of printable ASCII into such a sequence.  *)
(***************************************************************************)
EXTENDS Integers, Sequences, FiniteSets, TLC

\* ------------------------------------------------------------------------
\* Strings
\* ------------------------------------------------------------------------

AsciiLow == " !\"#$%&'()*+,-./0123456789:;<=>?@ABCDEFGHIJKLMNOPQRSTUVWXYZ[\\]^_"

AsciiHigh == "abcdefghijklmnopqrstuvwxyz{|}~"

\* the code point of a printable ASCII character other than the backquote
Ord(c) ==
  IF \E k \in 32..95 : SubSeq(AsciiLow, k - 31, k - 31) = c
  THEN CHOOSE k \in 32..95 : SubSeq(AsciiLow, k - 31, k - 31) = c
  ELSE CHOOSE k \in 97..126 : SubSeq(AsciiHigh, k - 96, k - 96) = c

Codes(str) == [i \in 1..Len(str) |-> Ord(SubSeq(str, i, i))]

\* Option<T>: None is the empty sequence, Some(x) the one-element sequence
None == <<>>

Some(x) == <<x>>

SPACE == Ord(" ")
PERCENT == Ord("%")
AMP == Ord("&")
PLUS == Ord("+")
SLASH == Ord("/")
QUESTION == Ord("?")

\* s[from..] (1-based), empty when from is past the end
Drop(s, from) == SubSeq(s, from, Len(s))

StartsWith(s, p) == Len(s) >= Len(p) /\ SubSeq(s, 1, Len(p)) = p

EndsWith(s, p) == Len(s) >= Len(p) /\ SubSeq(s, Len(s) - Len(p) + 1, Len(s)) = p

\* position of the first element of s that is in set cs, 0 when there is none
FirstIn(s, cs) ==
  IF \E i \in 1..Len(s) : s[i] \in cs
  THEN CHOOSE i \in 1..Len(s) : s[i] \in cs /\ \A j \in 1..(i - 1) : s[j] \notin cs
  ELSE 0

\* str::split(c): the pieces of s between occurrences of the character c
RECURSIVE Split(_, _)
Split(s, c) ==
  LET i == FirstIn(s, {c})
  IN  IF i = 0 THEN <<s>> ELSE <<SubSeq(s, 1, i - 1)>> \o Split(Drop(s, i + 1), c)

\* char::is_whitespace restricted to U+0000..U+00FF: tab to carriage return,
\* space, next line (U+0085), no-break space (U+00A0)
IsWhitespace(c) == c \in (9..13) \cup {32, 133, 160}

\* str::split_whitespace(): the non-empty pieces between runs of whitespace
RECURSIVE SplitWhitespace(_)
SplitWhitespace(s) ==
  IF s = <<>> THEN <<>>
  ELSE IF IsWhitespace(s[1]) THEN SplitWhitespace(Tail(s))
  ELSE LET i == FirstIn(s, {c \in 0..255 : IsWhitespace(c)})
       IN  IF i = 0 THEN <<s>>
           ELSE <<SubSeq(s, 1, i - 1)>> \o SplitWhitespace(Drop(s, i + 1))

\* str::lines().next(): up to the first line feed (10), a trailing carriage
\* return (13) removed; None for the empty string
FirstLine(s) ==
  IF s = <<>> THEN None
  ELSE LET i == FirstIn(s, {10})
           l == IF i = 0 THEN s ELSE SubSeq(s, 1, i - 1)
       IN  Some(IF l # <<>> /\ l[Len(l)] = 13 THEN SubSeq(l, 1, Len(l) - 1) ELSE l)

\* String::len(): the length of the UTF-8 encoding
RECURSIVE Utf8Len(_)
Utf8Len(s) ==
  IF s = <<>> THEN 0 ELSE (IF s[1] < 128 THEN 1 ELSE 2) + Utf8Len(Tail(s))

HexDigits == Codes("0123456789ABCDEF")

IsHex(c) == c \in (48..57) \cup (65..70) \cup (97..102)

HexVal(c) == IF c \in 48..57 THEN c - 48
             ELSE IF c \in 65..70 THEN c - 55
             ELSE c - 87

\* u8::from_str_radix(hex, 16) on the two characters after a '%': two hex
\* digits, or a '+' sign and one hex digit; -1 for Err
FromStrRadix16(a, b) ==
  IF IsHex(a) /\ IsHex(b) THEN 16 * HexVal(a) + HexVal(b)
  ELSE IF a = PLUS /\ IsHex(b) THEN HexVal(b)
  ELSE -1

\* url_decode: bytes of an ASCII request; every decoded byte becomes the
\* char with that code point
RECURSIVE url_decode(_)
url_decode(s) ==
  IF s = <<>> THEN <<>>
  ELSE IF s[1] = PERCENT /\ 2 < Len(s) /\ FromStrRadix16(s[2], s[3]) >= 0
       THEN <<FromStrRadix16(s[2], s[3])>> \o url_decode(Drop(s, 4))
  ELSE IF s[1] = PLUS /\ ~(s[1] = PERCENT /\ 2 < Len(s))
       THEN <<SPACE>> \o url_decode(Tail(s))
  ELSE <<s[1]>> \o url_decode(Tail(s))

\* ------------------------------------------------------------------------
\* The accept task's request parsing and candidate validation
\* ------------------------------------------------------------------------

TagPrefix == Codes("DEPOP_WEB:")

MinBearerLen == 20

\* first element of a sequence of strings that starts with p, None if none
FindStartsWith(parts, p) ==
  IF \E i \in 1..Len(parts) : StartsWith(parts[i], p)
  THEN Some(parts[CHOOSE i \in 1..Len(parts) :
                    /\ StartsWith(parts[i], p)
                    /\ \A j \in 1..(i - 1) : ~StartsWith(parts[j], p)])
  ELSE None

\* the token of "GET /token?t=<TOKEN> HTTP/1.1": second word of the first
\* line, the part between its first and second '?', the first '&'-separated
\* parameter that starts with "t=", percent-decoded; None when any is missing
ParseTokenBase(req) ==
  LET line == FirstLine(req)
  IN  IF line = None THEN None
      ELSE LET words == SplitWhitespace(line[1])
           IN  IF Len(words) < 2 THEN None
               ELSE LET pieces == Split(words[2], QUESTION)
                    IN  IF Len(pieces) < 2 THEN None
                        ELSE LET p == FindStartsWith(Split(pieces[2], AMP), Codes("t="))
                             IN  IF p = None THEN None ELSE Some(url_decode(Drop(p[1], 3)))

ParseToken(req) == ParseTokenBase(req)

\* tok.starts_with("DEPOP_WEB:") && tok.len() > "DEPOP_WEB:".len()
IsWebToken(tok) == StartsWith(tok, TagPrefix) /\ Utf8Len(tok) > Utf8Len(TagPrefix)

\* tok.len() >= 20
IsBearer(tok) == Utf8Len(tok) >= MinBearerLen

\* the condition under which the accept task emits "depop-token"
HostAcceptsBase(tok) ==
  /\ IsWebToken(tok) \/ IsBearer(tok)
  /\ \A i \in 1..Len(tok) : ~IsWhitespace(tok[i])

\* the mutant: the tagged branch is missing
HostAcceptsBearerOnly(tok) ==
  IsBearer(tok) /\ \A i \in 1..Len(tok) : ~IsWhitespace(tok[i])

HostAccepts(tok) == HostAcceptsBase(tok)

\* ------------------------------------------------------------------------
\* The injected script's side of the wire
\* ------------------------------------------------------------------------

\* characters encodeURIComponent leaves as they are
Unreserved == {Ord(SubSeq("-_.!~*'()", i, i)) : i \in 1..9}
                 \cup (48..57) \cup (65..90) \cup (97..122)

PercentByte(b) == <<PERCENT, HexDigits[(b \div 16) + 1], HexDigits[(b % 16) + 1]>>

\* encodeURIComponent on code points up to U+00FF: the UTF-8 bytes of every
\* character that is not unreserved, each as %XX
RECURSIVE encodeURIComponent(_)
encodeURIComponent(s) ==
  IF s = <<>> THEN <<>>
  ELSE (IF s[1] \in Unreserved THEN <<s[1]>>
        ELSE IF s[1] < 128 THEN PercentByte(s[1])
        ELSE PercentByte(192 + (s[1] \div 64)) \o PercentByte(128 + (s[1] % 64)))
       \o encodeURIComponent(Tail(s))

\* the request the page's fetch() or Image sends for sendToServer(token)
BrowserRequest(token) ==
  Codes("GET /token?t=") \o encodeURIComponent(token) \o Codes(" HTTP/1.1") \o <<13, 10>>

\* JavaScript's \s restricted to U+0000..U+00FF
JsIsWhitespace(c) == c \in (9..13) \cup {32, 160}

\* captureToken's checks before the "already sent" guard
BrowserAccepts(token) ==
  /\ token # <<>>
  /\ Len(token) >= (IF StartsWith(token, TagPrefix) THEN 11 ELSE 20)
  /\ \A i \in 1..Len(token) : ~JsIsWhitespace(token[i])

\* ------------------------------------------------------------------------
\* Bounds
\* ------------------------------------------------------------------------

\* invocations of open_depop_login
MaxOpens == 2

\* connections made to the token servers
MaxConns == 2

Calls == 1..MaxOpens

LoginUrl == Codes("https://www.depop.com/login/")

\* ------------------------------------------------------------------------
\* State
\* ------------------------------------------------------------------------

VARIABLES
  port,         \* DepopState.port: Option<u16>; the listener of invocation c
                \* is given the port number c
  shutdown_tx,  \* DepopState.shutdown_tx: Option of the server whose oneshot
                \* sender is stored
  call,         \* call[c]: position of the c-th open_depop_login invocation,
                \* at the end its result
  srv,          \* srv[c]: listener and accept task created by invocation c
  backlog,      \* connections made to the listeners and not yet accepted
  nconn,        \* number of connections made so far
  events,       \* "depop-token" events emitted, in order
  closers,      \* accept tasks whose 400 ms delayed window close is pending
  window,       \* the webview window labelled "depop-login": Option
  last,         \* outcome of the most recent scan or navigate command
  held          \* held.port, held.shutdown_tx: Option of the invocation that
                \* holds the guard of that Mutex of DepopState

vars == <<port, shutdown_tx, call, srv, backlog, nconn, events, closers, window, last, held>>

\* st: none, bound (listener bound, task not spawned), select, read, write,
\* and captured, cancelled, failed once the task has ended; cur: the accepted
\* stream; buf: the bytes read from it
NoServer == [st |-> "none", signalled |-> FALSE, cur |-> None, buf |-> <<>>]

NoResult == [op |-> "none", arg |-> <<>>, res |-> "none"]

Init ==
  /\ port = None
  /\ shutdown_tx = None
  /\ call = [c \in Calls |-> "idle"]
  /\ srv = [c \in Calls |-> NoServer]
  /\ backlog = <<>>
  /\ nconn = 0
  /\ events = <<>>
  /\ closers = {}
  /\ window = None
  /\ last = NoResult
  /\ held = [port |-> None, shutdown_tx |-> None]

\* the listener of s is bound (from bind until the accept task ends)
Alive(s) == srv[s].st \in {"bound", "select", "read", "write"}

\* the server whose listener is bound to port p: Option
ListenerOn(p) == IF p \in Calls /\ Alive(p) THEN Some(p) ELSE None

\* dropping or using the sender stored in an Option: its receiver resolves
Signal(servers, tx) ==
  [s \in Calls |-> IF tx = Some(s) THEN [servers[s] EXCEPT !.signalled = TRUE]
                   ELSE servers[s]]

\* the end of the accept task drops the listener: its port is released and
\* the connections waiting in its backlog are reset
RECURSIVE Without(_, _)
Without(q, s) ==
  IF q = <<>> THEN <<>>
  ELSE IF q[1].to = s THEN Without(Tail(q), s)
  ELSE <<q[1]>> \o Without(Tail(q), s)

\* ------------------------------------------------------------------------
\* open_depop_login, one action per statement that other tasks can observe
\* ------------------------------------------------------------------------

\* the command arrives; a stale "depop-login" window is closed
OpenCloseStale(c) ==
  /\ call[c] = "idle"
  /\ \A d \in 1..(c - 1) : call[d] # "idle"
  /\ window' = None
  /\ call' = [call EXCEPT ![c] = "cancel"]
  /\ UNCHANGED <<port, shutdown_tx, srv, backlog, nconn, events, closers, last, held>>

\* shutdown_tx.lock().take(), then send(()) on the sender taken
OpenCancel(c) ==
  /\ call[c] = "cancel"
  /\ shutdown_tx' = None
  /\ srv' = Signal(srv, shutdown_tx)
  /\ call' = [call EXCEPT ![c] = "bind"]
  /\ UNCHANGED <<port, backlog, nconn, events, closers, window, last, held>>

\* TcpListener::bind("127.0.0.1:0") succeeds on a port no listener holds
OpenBindOk(c) ==
  /\ call[c] = "bind"
  /\ srv' = [srv EXCEPT ![c].st = "bound"]
  /\ call' = [call EXCEPT ![c] = "store_port"]
  /\ UNCHANGED <<port, shutdown_tx, backlog, nconn, events, closers, window, last, held>>

\* the mutant: the port is stored before the bind result is looked at
OpenBindErrStoresPort(c) ==
  /\ call[c] = "bind"
  /\ call' = [call EXCEPT ![c] = "err_bind"]
  /\ port' = Some(c)
  /\ UNCHANGED <<shutdown_tx, srv, backlog, nconn, events, closers, window, last, held>>

\* bind fails: the command returns "Failed to start token server"
OpenBindErr(c) ==
  /\ call[c] = "bind"
  /\ call' = [call EXCEPT ![c] = "err_bind"]
  /\ UNCHANGED <<port, shutdown_tx, srv, backlog, nconn, events, closers, window, last, held>>

\* *state.port.lock() = Some(port)
OpenStorePort(c) ==
  /\ call[c] = "store_port"
  /\ port' = Some(c)
  /\ call' = [call EXCEPT ![c] = "store_tx"]
  /\ UNCHANGED <<shutdown_tx, srv, backlog, nconn, events, closers, window, last, held>>

\* the mutant: the sender that was stored is not dropped when it is replaced
OpenStoreTxLeaks(c) ==
  /\ call[c] = "store_tx"
  /\ shutdown_tx' = Some(c)
  /\ srv' = [srv EXCEPT ![c].st = "select"]
  /\ call' = [call EXCEPT ![c] = "build"]
  /\ UNCHANGED <<port, backlog, nconn, events, closers, window, last, held>>

\* *state.shutdown_tx.lock() = Some(shutdown_tx), which drops a sender still
\* stored there; then the accept task is spawned
OpenStoreTx(c) ==
  /\ call[c] = "store_tx"
  /\ shutdown_tx' = Some(c)
  /\ srv' = [Signal(srv, shutdown_tx) EXCEPT ![c].st = "select"]
  /\ call' = [call EXCEPT ![c] = "build"]
  /\ UNCHANGED <<port, backlog, nconn, events, closers, window, last, held>>

\* WebviewWindowBuilder::build succeeds: the label is free.  Of the page in
\* the window: sent is window.__fliptools_token_sent, sends the number of
\* calls of sendToServer in the current document (two stands for more), auto
\* where autoCapture is: none before the load event, pending while its
\* timeout runs, done afterwards
OpenBuildOk(c) ==
  /\ call[c] = "build"
  /\ window = None
  /\ window' = Some([owner |-> c, port |-> c, sent |-> FALSE, loc |-> LoginUrl,
                      sends |-> 0, auto |-> "none"])
  /\ call' = [call EXCEPT ![c] = "ok"]
  /\ UNCHANGED <<port, shutdown_tx, srv, backlog, nconn, events, closers, last, held>>

\* build fails (the label is taken, or the webview cannot be created): the
\* command returns "Failed to open login window"
OpenBuildErr(c) ==
  /\ call[c] = "build"
  /\ call' = [call EXCEPT ![c] = "err_window"]
  /\ UNCHANGED <<port, shutdown_tx, srv, backlog, nconn, events, closers, window, last, held>>

\* ------------------------------------------------------------------------
\* The accept task spawned by open_depop_login
\* ------------------------------------------------------------------------

Pending(s) == {i \in 1..Len(backlog) : backlog[i].to = s}

\* the sequence q without its i-th element
Remove(q, i) == SubSeq(q, 1, i - 1) \o SubSeq(q, i + 1, Len(q))

\* the task has ended: captured (break after the emit), cancelled (shutdown
\* branch) or failed (accept error); its receiver is gone with it
Ended(how) == [st |-> how, signalled |-> TRUE, cur |-> None, buf |-> <<>>]

\* select!: the shutdown branch is ready once the sender was used or dropped
ServerShutdown(s) ==
  /\ srv[s].st = "select"
  /\ srv[s].signalled
  /\ srv' = [srv EXCEPT ![s] = Ended("cancelled")]
  /\ backlog' = Without(backlog, s)
  /\ UNCHANGED <<port, shutdown_tx, call, nconn, events, closers, window, last, held>>

\* select!: listener.accept() returns the oldest pending connection; when
\* both branches are ready either may be taken
ServerAccept(s) ==
  /\ srv[s].st = "select"
  /\ Pending(s) # {}
  /\ LET i == CHOOSE i \in Pending(s) : \A j \in Pending(s) : i <= j
     IN  /\ backlog' = Remove(backlog, i)
         /\ srv' = [srv EXCEPT ![s].st = "read",
                               ![s].cur = Some([data |-> backlog[i].data, open |-> backlog[i].open])]
  /\ UNCHANGED <<port, shutdown_tx, call, nconn, events, closers, window, last, held>>

\* select!: listener.accept() returns Err and the loop breaks
ServerAcceptErr(s) ==
  /\ srv[s].st = "select"
  /\ srv' = [srv EXCEPT ![s] = Ended("failed")]
  /\ backlog' = Without(backlog, s)
  /\ UNCHANGED <<port, shutdown_tx, call, nconn, events, closers, window, last, held>>

\* stream.read(): n > 0 once the client has sent; Ok(0) or Err once it has
\* closed without sending, and the loop continues; it waits otherwise
ServerRead(s) ==
  /\ srv[s].st = "read"
  /\ \/ /\ srv[s].cur[1].data # <<>>
        /\ srv' = [srv EXCEPT ![s].st = "write", ![s].buf = srv[s].cur[1].data]
     \/ /\ srv[s].cur[1].data = <<>>
        /\ ~srv[s].cur[1].open
        /\ srv' = [srv EXCEPT ![s].st = "select", ![s].cur = None]
  /\ UNCHANGED <<port, shutdown_tx, call, backlog, nconn, events, closers, window, last, held>>

\* write_all of the 200 response and drop(stream); then the token is parsed
\* and validated: emit, schedule the window close and break (next is then
\* Ended("captured")), or go round the loop
ServerRespondThen(s, next) ==
  /\ srv[s].st = "write"
  /\ LET token == ParseToken(srv[s].buf)
     IN  IF token # None /\ HostAccepts(token[1])
         THEN /\ events' = Append(events, [by |-> s, payload |-> token[1]])
              /\ closers' = closers \cup {s}
              /\ srv' = [srv EXCEPT ![s] = next]
              /\ backlog' = IF next.st = "captured" THEN Without(backlog, s) ELSE backlog
         ELSE /\ srv' = [srv EXCEPT ![s].st = "select", ![s].cur = None, ![s].buf = <<>>]
              /\ UNCHANGED <<events, closers, backlog>>
  /\ UNCHANGED <<port, shutdown_tx, call, nconn, window, last, held>>

\* the mutant: the break after the emit is missing
ServerRespondNoBreak(s) ==
  ServerRespondThen(s, [srv[s] EXCEPT !.st = "select", !.cur = None, !.buf = <<>>])

ServerRespond(s) == ServerRespondThen(s, Ended("captured"))

\* the task spawned on capture: after the sleep, close the window that
\* carries the label "depop-login"
CloserFire(s) ==
  /\ s \in closers
  /\ closers' = closers \ {s}
  /\ window' = None
  /\ UNCHANGED <<port, shutdown_tx, call, srv, backlog, nconn, events, last, held>>

\* ------------------------------------------------------------------------
\* Clients of the loopback port
\* ------------------------------------------------------------------------

\* n connections carrying the same request to the listener on port p; they
\* are refused when nothing listens there
Connect(p, data, n) ==
  IF ListenerOn(p) = None THEN backlog
  ELSE backlog \o [i \in 1..n |-> [to |-> p, data |-> data, open |-> TRUE]]

\* a local process connects to a bound port; data is what it has sent by the
\* time the server reads (nothing yet when empty)
LocalConnect(p, data) ==
  /\ ListenerOn(p) # None
  /\ nconn < MaxConns
  /\ backlog' = Connect(p, data, 1)
  /\ nconn' = nconn + 1
  /\ UNCHANGED <<port, shutdown_tx, call, srv, events, closers, window, last, held>>

\* the client of the stream the task is reading sends at last
ClientSend(s, data) ==
  /\ srv[s].st = "read"
  /\ srv[s].cur[1].open
  /\ srv[s].cur[1].data = <<>>
  /\ data # <<>>
  /\ srv' = [srv EXCEPT ![s].cur = Some([data |-> data, open |-> TRUE])]
  /\ UNCHANGED <<port, shutdown_tx, call, backlog, nconn, events, closers, window, last, held>>

\* the client of the stream the task is reading closes without sending
ClientClose(s) ==
  /\ srv[s].st = "read"
  /\ srv[s].cur[1].open
  /\ srv[s].cur[1].data = <<>>
  /\ srv' = [srv EXCEPT ![s].cur = Some([data |-> <<>>, open |-> FALSE])]
  /\ UNCHANGED <<port, shutdown_tx, call, backlog, nconn, events, closers, window, last, held>>

\* ------------------------------------------------------------------------
\* The page in the "depop-login" window
\* ------------------------------------------------------------------------

\* sendToServer(token) on port p: the fetch and the image load, n of which
\* the webview lets through
SendToServer(p, token, n) == Connect(p, BrowserRequest(token), n)

\* one more call of sendToServer, counted up to two
Bump(k) == IF k < 2 THEN k + 1 ELSE k

\* the mutant: captureToken without its "already sent" guard
captureTokenUnguarded(token, n) ==
  /\ window # None
  /\ BrowserAccepts(token)
  /\ nconn + n <= MaxConns
  /\ window' = Some([window[1] EXCEPT !.sent = TRUE, !.sends = Bump(@)])
  /\ backlog' = SendToServer(window[1].port, token, n)
  /\ nconn' = nconn + (Len(backlog') - Len(backlog))
  /\ UNCHANGED <<port, shutdown_tx, call, srv, events, closers, last, held>>

\* captureToken(token), called by one of the init script's strategies
captureToken(token, n) ==
  /\ window # None
  /\ BrowserAccepts(token)
  /\ ~window[1].sent
  /\ nconn + n <= MaxConns
  /\ window' = Some([window[1] EXCEPT !.sent = TRUE, !.sends = Bump(@)])
  /\ backlog' = SendToServer(window[1].port, token, n)
  /\ nconn' = nconn + (Len(backlog') - Len(backlog))
  /\ UNCHANGED <<port, shutdown_tx, call, srv, events, closers, last, held>>

\* a new document loads in the window: the init script runs again on a fresh
\* global object
PageLoad ==
  /\ window # None
  /\ window[1].sent \/ window[1].sends > 0 \/ window[1].auto # "none"
  /\ window' = Some([window[1] EXCEPT !.sent = FALSE, !.sends = 0, !.auto = "none"])
  /\ UNCHANGED <<port, shutdown_tx, call, srv, backlog, nconn, events, closers, last, held>>

\* the mutant: the navigation links are looked at before anything else
AutoCandidateDomFirst(src) ==
  IF src.dom # None THEN Some(TagPrefix \o src.dom[1])
  ELSE IF src.url # None THEN Some(TagPrefix \o src.url[1])
  ELSE IF src.next # None THEN Some(TagPrefix \o src.next[1])
  ELSE IF src.glob # None THEN Some(TagPrefix \o src.glob[1])
  ELSE None

\* the argument of the one captureToken call autoCapture's timeout makes, if
\* any.  src is what the page holds: url, the slug in location.pathname; next,
\* the slug findSlug finds in __NEXT_DATA__; dom, the slug of the first
\* profile link in the navigation; glob, the user name in a global state
\* object (each None when there is none)
AutoCandidate(src) ==
  IF src.url # None THEN Some(TagPrefix \o src.url[1])
  ELSE IF src.next # None THEN Some(TagPrefix \o src.next[1])
  ELSE IF src.dom # None THEN Some(TagPrefix \o src.dom[1])
  ELSE IF src.glob # None THEN Some(TagPrefix \o src.glob[1])
  ELSE None

\* the load event: autoCapture returns when a token was sent or the path is
\* one of login, signup, register (login), and sets its timeout otherwise
autoCapture(login) ==
  /\ window # None
  /\ window[1].auto = "none"
  /\ window' = Some([window[1] EXCEPT
                       !.auto = IF window[1].sent \/ login THEN "done" ELSE "pending"])
  /\ UNCHANGED <<port, shutdown_tx, call, srv, backlog, nconn, events, closers, last, held>>

\* the timeout, 800 ms later: nothing when a token was sent meanwhile; else
\* captureToken on the first source that has a slug, and return
autoCaptureTimeout(src, n) ==
  /\ window # None
  /\ window[1].auto = "pending"
  /\ nconn + n <= MaxConns
  /\ LET found == AutoCandidate(src)
     IN  IF ~window[1].sent /\ found # None /\ BrowserAccepts(found[1])
         THEN /\ window' = Some([window[1] EXCEPT
                                   !.sent = TRUE, !.sends = Bump(@), !.auto = "done"])
              /\ backlog' = SendToServer(window[1].port, found[1], n)
         ELSE /\ n = 0
              /\ window' = Some([window[1] EXCEPT !.auto = "done"])
              /\ backlog' = backlog
  /\ nconn' = nconn + (Len(backlog') - Len(backlog))
  /\ UNCHANGED <<port, shutdown_tx, call, srv, events, closers, last, held>>

\* the user closes the login window
UserCloseWindow ==
  /\ window # None
  /\ window' = None
  /\ UNCHANGED <<port, shutdown_tx, call, srv, backlog, nconn, events, closers, last, held>>

\* ------------------------------------------------------------------------
\* scan_depop_auth
\* ------------------------------------------------------------------------

ScanResult(res) == [op |-> "scan", arg |-> <<>>, res |-> res]

\* found: the slug one of the rescan script's methods comes up with (None
\* when none does), sent as DEPOP_WEB:<slug> to the port read from DepopState;
\* kept: the stored port after the call has failed for want of a window
ScanWith(found, n, kept) ==
  IF port = None
  THEN /\ found = None /\ n = 0
       /\ last' = ScanResult("err_port")
       /\ UNCHANGED <<port, shutdown_tx, call, srv, backlog, nconn, events, closers, window, held>>
  ELSE IF window = None
  THEN /\ found = None /\ n = 0
       /\ last' = ScanResult("err_window")
       /\ port' = kept
       /\ UNCHANGED <<shutdown_tx, call, srv, backlog, nconn, events, closers, window, held>>
  ELSE /\ (found = None) = (n = 0)
       /\ nconn + n <= MaxConns
       /\ window' = Some([window[1] EXCEPT
                            !.sent = FALSE,
                            !.sends = IF found = None THEN @ ELSE Bump(@)])
       /\ backlog' = IF found = None THEN backlog
                     ELSE SendToServer(port[1], TagPrefix \o found[1], n)
       /\ nconn' = nconn + (Len(backlog') - Len(backlog))
       /\ last' = ScanResult("ok")
       /\ UNCHANGED <<port, shutdown_tx, call, srv, events, closers, held>>

\* the mutant: a failed rescan forgets the stored port
ScanForgetsPort(found, n) == ScanWith(found, n, None)

scan_depop_auth(found, n) == ScanWith(found, n, port)

\* ------------------------------------------------------------------------
\* navigate_depop_window
\* ------------------------------------------------------------------------

\* str::trim_start_matches(p): p removed from the front as often as it occurs
RECURSIVE TrimStartMatches(_, _)
TrimStartMatches(s, p) ==
  IF p # <<>> /\ StartsWith(s, p) THEN TrimStartMatches(Drop(s, Len(p) + 1), p) ELSE s

HttpsScheme == Codes("https://")

\* url.trim_start_matches("https://").split('/').next()
NavHost(url) == Split(TrimStartMatches(url, HttpsScheme), SLASH)[1]

is_depop_base(url) ==
  /\ StartsWith(url, HttpsScheme)
  /\ \/ NavHost(url) = Codes("depop.com")
     \/ EndsWith(NavHost(url), Codes(".depop.com"))

is_depop(url) == is_depop_base(url)

\* serde_json::to_string of a string of printable characters: quotes around
\* it, a backslash before every quote and backslash
RECURSIVE JsonEscape(_)
JsonEscape(s) ==
  IF s = <<>> THEN <<>>
  ELSE (IF s[1] \in {Ord("\""), Ord("\\")} THEN <<Ord("\\"), s[1]>> ELSE <<s[1]>>)
       \o JsonEscape(Tail(s))

JsonString(s) == <<Ord("\"")>> \o JsonEscape(s) \o <<Ord("\"")>>

\* the value of such a literal in the script "window.location.href = <lit>;"
RECURSIVE JsUnescape(_)
JsUnescape(s) ==
  IF s = <<>> THEN <<>>
  ELSE IF s[1] = Ord("\\") /\ Len(s) >= 2 THEN <<s[2]>> \o JsUnescape(Drop(s, 3))
  ELSE <<s[1]>> \o JsUnescape(Tail(s))

JsStringValue(lit) == JsUnescape(SubSeq(lit, 2, Len(lit) - 1))

NavResult(url, res) == [op |-> "navigate", arg |-> url, res |-> res]

navigate_depop_window(url) ==
  IF ~is_depop(url)
  THEN /\ last' = NavResult(url, "err_domain")
       /\ UNCHANGED <<port, shutdown_tx, call, srv, backlog, nconn, events, closers, window, held>>
  ELSE IF window = None
  THEN /\ last' = NavResult(url, "err_window")
       /\ UNCHANGED <<port, shutdown_tx, call, srv, backlog, nconn, events, closers, window, held>>
  ELSE /\ window' = Some([window[1] EXCEPT !.loc = JsStringValue(JsonString(url))])
       /\ last' = NavResult(url, "ok")
       /\ UNCHANGED <<port, shutdown_tx, call, srv, backlog, nconn, events, closers, held>>

\* ------------------------------------------------------------------------
\* Inputs
\* ------------------------------------------------------------------------

TaggedAlice == TagPrefix \o Codes("alice")

ShortToken == Codes("short")

\* candidates the init script's strategies come up with
Candidates == {TaggedAlice, ShortToken}

\* slugs the rescan script's methods come up with
Slugs == {Codes("alice")}

\* what local clients send: a delivery of a tagged identifier, one of a
\* candidate that is too short, nothing
Requests == {BrowserRequest(TaggedAlice), BrowserRequest(ShortToken), <<>>}

\* ------------------------------------------------------------------------
\* The system
\* ------------------------------------------------------------------------

Open(c) ==
  \/ OpenCloseStale(c)
  \/ OpenCancel(c)
  \/ OpenBindOk(c)
  \/ OpenBindErr(c)
  \/ OpenStorePort(c)
  \/ OpenStoreTx(c)
  \/ OpenBuildOk(c)
  \/ OpenBuildErr(c)

Server(s) ==
  \/ ServerShutdown(s)
  \/ ServerAccept(s)
  \/ ServerAcceptErr(s)
  \/ ServerRead(s)
  \/ ServerRespond(s)
  \/ CloserFire(s)

Next ==
  \/ \E c \in Calls : Open(c)
  \/ \E s \in Calls : Server(s)
  \/ \E p \in Calls, d \in Requests : LocalConnect(p, d)
  \/ \E s \in Calls : ClientSend(s, BrowserRequest(TaggedAlice))
  \/ \E s \in Calls : ClientClose(s)
  \/ \E t \in Candidates, n \in 0..2 : captureToken(t, n)
  \/ PageLoad
  \/ UserCloseWindow
  \/ \E f \in {None} \cup {Some(g) : g \in Slugs}, n \in 0..2 : scan_depop_auth(f, n)

Spec == Init /\ [][Next]_vars

\* ------------------------------------------------------------------------
\* navigate_depop_window on one session, over urls of every shape
\* ------------------------------------------------------------------------

NavUrls ==
  { Codes("https://www.depop.com/magic?x=1"),
    Codes("https://depop.com/"),
    Codes("https://www.depop.com?x=1"),
    Codes("https://magic.depop.com/l?q=\"a\\b\""),
    Codes("http://evil.example.com"),
    Codes("https://notdepop.com/"),
    Codes("https://evil.example.com/?next=.depop.com"),
    Codes("https://evil.example.com?.depop.com"),
    Codes("https://evil.example.com#.depop.com"),
    Codes("https://www.depop.com@evil.example.com/"),
    Codes("https://https://depop.com/x") }

NavNext ==
  \/ Open(1)
  \/ UserCloseWindow
  \/ \E u \in NavUrls : navigate_depop_window(u)

NavSpec == Init /\ [][NavNext]_vars

\* ------------------------------------------------------------------------
\* The wire: one session, requests of every shape
\* ------------------------------------------------------------------------

\* an opaque token of exactly 20 characters
Bearer20 == Codes("eyJhbGciOiJIUzI1NiJ9")

RequestLine(target) == Codes("GET ") \o target \o Codes(" HTTP/1.1") \o <<13, 10>>

WireRequests ==
  { BrowserRequest(TaggedAlice),
    BrowserRequest(TagPrefix),
    BrowserRequest(TagPrefix \o Codes("a")),
    BrowserRequest(TagPrefix \o Codes("a b")),
    BrowserRequest(ShortToken),
    BrowserRequest(SubSeq(Bearer20, 1, 19)),
    BrowserRequest(Bearer20),
    BrowserRequest(Bearer20 \o Codes(" x")),
    RequestLine(Codes("/token?t=") \o SubSeq(Bearer20, 1, 19) \o Codes("+")),
    RequestLine(Codes("/token?t=") \o Bearer20 \o Codes("%85")),
    RequestLine(Codes("/token?t=%E9%E9%E9%E9%E9%E9%E9%E9%E9%E9")),
    RequestLine(Codes("/token?x=1&t=") \o Bearer20),
    RequestLine(Codes("/token?x=") \o Bearer20),
    RequestLine(Codes("/token")),
    Codes("GET"),
    <<13, 10>>,
    <<>> }

WireNext ==
  \/ Open(1)
  \/ ServerAccept(1)
  \/ ServerAcceptErr(1)
  \/ ServerRead(1)
  \/ ServerRespond(1)
  \/ CloserFire(1)
  \/ \E d \in WireRequests : LocalConnect(1, d)
  \/ ClientClose(1)

WireSpec == Init /\ [][WireNext]_vars

\* ------------------------------------------------------------------------
\* One session under fair scheduling of the host's tasks
\* ------------------------------------------------------------------------

FairRequests ==
  {BrowserRequest(Bearer20), BrowserRequest(TaggedAlice), BrowserRequest(ShortToken), <<>>}

FairNext ==
  \/ Open(1)
  \/ ServerAccept(1)
  \/ ServerAcceptErr(1)
  \/ ServerRead(1)
  \/ ServerRespond(1)
  \/ CloserFire(1)
  \/ \E d \in FairRequests : LocalConnect(1, d)
  \/ ClientSend(1, BrowserRequest(ShortToken))
  \/ ClientClose(1)

\* the runtime keeps polling the command and the spawned tasks: a step of
\* theirs that stays possible is taken; clients and accept errors owe nothing.
\* ServerRespond(1) is possible exactly in "write" and always leaves it, so
\* its weak fairness is that the task is not in "write" for ever.
FairSpec ==
  /\ Init
  /\ [][FairNext]_vars
  /\ WF_vars(Open(1))
  /\ WF_vars(ServerAccept(1))
  /\ WF_vars(ServerRead(1))
  /\ []<>(srv[1].st # "write")
  /\ WF_vars(CloserFire(1))

\* ------------------------------------------------------------------------
\* The page of one session: every strategy of the init script and the rescan
\* ------------------------------------------------------------------------

Sources ==
  [url : {None, Some(Codes("ann"))},
   next : {None, Some(Codes("bob"))},
   dom : {None, Some(Codes("cat"))},
   glob : {None, Some(Codes("dan")), Some(Codes("d n"))}]

\* twenty characters, the last one U+0085 (NEXT LINE)
Nel20 == SubSeq(Bearer20, 1, 19) \o <<133>>

\* ten times U+00E9: ten UTF-16 code units, twenty UTF-8 bytes
Accented10 == [i \in 1..10 |-> 233]

\* the strings the page's strategies hand to captureToken
PageTokens == Candidates \cup {Bearer20, Nel20, Accented10}

\* the identifiers the rescan script's methods find
ScanFinds == {None, Some(Codes("alice")), Some(Codes("d n"))}

PageNext ==
  \/ Open(1)
  \/ PageLoad
  \/ UserCloseWindow
  \/ \E login \in BOOLEAN : autoCapture(login)
  \/ \E src \in Sources, n \in 0..2 : autoCaptureTimeout(src, n)
  \/ \E t \in PageTokens, n \in 0..2 : captureToken(t, n)
  \/ \E f \in ScanFinds, n \in 0..2 : scan_depop_auth(f, n)

PageSpec == Init /\ [][PageNext]_vars

\* ------------------------------------------------------------------------
\* A session and its successor under fair scheduling of the host's tasks
\* ------------------------------------------------------------------------

CancelNext ==
  \/ \E c \in Calls : Open(c)
  \/ \E s \in Calls : Server(s)
  \/ \E p \in Calls, d \in {BrowserRequest(TaggedAlice), <<>>} : LocalConnect(p, d)
  \/ \E s \in Calls : ClientClose(s)

\* as in FairSpec, for both invocations and their tasks; the shutdown branch
\* of select! is among the task's steps
CancelSpec ==
  /\ Init
  /\ [][CancelNext]_vars
  /\ \A c \in Calls :
       /\ WF_vars(Open(c))
       /\ WF_vars(ServerShutdown(c))
       /\ WF_vars(ServerAccept(c))
       /\ WF_vars(ServerRead(c))
       /\ []<>(srv[c].st # "write")
       /\ WF_vars(CloserFire(c))

\* ------------------------------------------------------------------------
\* The Mutex guards of DepopState, statement by statement
\* ------------------------------------------------------------------------

Rest == <<backlog, nconn, events, closers, window, last>>

\* state.shutdown_tx.lock(): waits while another invocation holds the guard
LockShutdownTx(c) ==
  /\ call[c] \in {"cancel", "store_tx"}
  /\ held.shutdown_tx = None
  /\ held' = [held EXCEPT !.shutdown_tx = Some(c)]
  /\ UNCHANGED <<port, shutdown_tx, call, srv, Rest>>

\* the mutant: the guard taken for take() is kept while bind is awaited
TakeKeepsGuard(c) ==
  /\ call[c] = "cancel"
  /\ held.shutdown_tx = Some(c)
  /\ shutdown_tx' = None
  /\ srv' = Signal(srv, shutdown_tx)
  /\ call' = [call EXCEPT ![c] = "bind"]
  /\ UNCHANGED <<port, held, Rest>>

\* .take() under the guard; the guard, a temporary, is dropped at the end of
\* the statement; then send(()) on the sender taken
TakeShutdownTx(c) ==
  /\ call[c] = "cancel"
  /\ held.shutdown_tx = Some(c)
  /\ shutdown_tx' = None
  /\ srv' = Signal(srv, shutdown_tx)
  /\ held' = [held EXCEPT !.shutdown_tx = None]
  /\ call' = [call EXCEPT ![c] = "bind"]
  /\ UNCHANGED <<port, Rest>>

\* state.port.lock()
LockPort(c) ==
  /\ call[c] = "store_port"
  /\ held.port = None
  /\ held' = [held EXCEPT !.port = Some(c)]
  /\ UNCHANGED <<port, shutdown_tx, call, srv, Rest>>

\* the assignment of Some(port) under the guard, dropped with the statement
StorePort(c) ==
  /\ call[c] = "store_port"
  /\ held.port = Some(c)
  /\ port' = Some(c)
  /\ held' = [held EXCEPT !.port = None]
  /\ call' = [call EXCEPT ![c] = "store_tx"]
  /\ UNCHANGED <<shutdown_tx, srv, Rest>>

\* the assignment of Some(shutdown_tx) under the guard, dropped with the
\* statement; then the accept task is spawned
StoreShutdownTx(c) ==
  /\ call[c] = "store_tx"
  /\ held.shutdown_tx = Some(c)
  /\ shutdown_tx' = Some(c)
  /\ srv' = [Signal(srv, shutdown_tx) EXCEPT ![c].st = "select"]
  /\ held' = [held EXCEPT !.shutdown_tx = None]
  /\ call' = [call EXCEPT ![c] = "build"]
  /\ UNCHANGED <<port, Rest>>

\* scan_depop_auth copies the port out under the guard within one block
ScanLocking(found, n) == held.port = None /\ scan_depop_auth(found, n)

LockNext ==
  \/ \E c \in Calls :
       \/ OpenCloseStale(c)
       \/ LockShutdownTx(c)
       \/ TakeShutdownTx(c)
       \/ OpenBindOk(c)
       \/ OpenBindErr(c)
       \/ LockPort(c)
       \/ StorePort(c)
       \/ StoreShutdownTx(c)
       \/ OpenBuildOk(c)
       \/ OpenBuildErr(c)
  \/ \E s \in Calls : Server(s)
  \/ \E p \in Calls : LocalConnect(p, BrowserRequest(TaggedAlice))
  \/ ScanLocking(None, 0)

LockSpec == Init /\ [][LockNext]_vars

\* ------------------------------------------------------------------------
\* The round trip: what the page delivers and what the accept task emits
\* ------------------------------------------------------------------------

\* twenty ASCII characters, among them those a query string gives a meaning
ReservedAscii20 == Codes("a+b%c&d=e?f/g#h:i;jk")

\* nineteen ASCII characters and U+00E9, whose UTF-8 bytes are C3 A9
Accented20 == SubSeq(Bearer20, 1, 19) \o <<233>>

\* nineteen ASCII characters and U+00C5, whose UTF-8 bytes are C3 85
Ring20 == SubSeq(Bearer20, 1, 19) \o <<197>>

\* a tagged identifier with U+00E9 in it
TaggedAccented == TagPrefix \o <<114, 233, 109, 105>>

\* candidates the page's strategies deliver
TripTokens ==
  {TaggedAlice, Bearer20, ReservedAscii20, Accented20, Ring20, TaggedAccented}

TripNext ==
  \/ Open(1)
  \/ ServerAccept(1)
  \/ ServerRead(1)
  \/ ServerRespond(1)
  \/ CloserFire(1)
  \/ PageLoad
  \/ \E t \in TripTokens, n \in 0..2 : captureToken(t, n)

TripSpec == Init /\ [][TripNext]_vars

\* ------------------------------------------------------------------------
\* Properties
\* ------------------------------------------------------------------------

\* the events a session has emitted
EventsBy(s) == SelectSeq(events, LAMBDA e : e.by = s)

\* the accept task of s is running
Listening(s) == srv[s].st \in {"select", "read", "write"}

\* C1: at no moment are two callback servers accepting connections at once:
\* a first session's accept loop has ended before the listener of a second
\* session is bound and its accept loop runs.
C1_SingleListening ==
  \A a, b \in Calls : (a # b /\ Listening(a)) => ~Alive(b)

\* C2: once a session has emitted the credential event its accept loop has
\* ended as Captured and stays so: it accepts no later connection and emits
\* no second event, whatever is still waiting on its port.
C2_NothingAfterEmit ==
  [][\A s \in Calls :
       EventsBy(s) # <<>> =>
         /\ srv[s].st = "captured" /\ srv'[s].st = "captured"
         /\ Pending(s) = {}
         /\ Len(EventsBy(s)) = 1 /\ EventsBy(s)' = EventsBy(s)]_vars

\* C2 witness: a session has captured after two connections were made in the
\* same delivery (the fetch and the image of one sendToServer)
C2_Witness ==
  \E s \in Calls :
    /\ srv[s].st = "captured" /\ Len(EventsBy(s)) = 1
    /\ nconn = 2 /\ window # None /\ window[1].sent /\ window[1].port = s

\* what a step leaves alone when it changes nothing but the command result
SessionUnchanged ==
  UNCHANGED <<port, shutdown_tx, call, srv, backlog, nconn, events, closers, window>>

\* a step in which scan_depop_auth returns
ScanReturns == last' # last /\ last'.op = "scan"

\* C6: rescan called when no capture browser surface is open returns a
\* precondition error and leaves everything unchanged: no listener is bound,
\* the stored port and cancellation handle keep their values, and a Listening
\* server keeps listening.
C6_RescanWithoutSurface ==
  [][(ScanReturns /\ window = None) =>
       (last'.res \in {"err_port", "err_window"} /\ SessionUnchanged)]_vars

\* C6 witness: rescan has failed for want of a window while the server whose
\* port is stored is still listening
C6_Witness ==
  /\ last = ScanResult("err_window")
  /\ window = None
  /\ \E s \in Calls : port = Some(s) /\ shutdown_tx = Some(s) /\ srv[s].st = "select"

\* C7: rescan succeeds only when a session is active (the callback server of
\* the stored port is Listening) and the browser surface is open; in every
\* other state it fails and injects no script.
C7_RescanNeedsActiveSession ==
  [][(ScanReturns /\ last'.res = "ok") =>
       (window # None /\ \E s \in Calls : port = Some(s) /\ Listening(s))]_vars

\* C8: once cancellation has been signalled to a session's server, that
\* session never emits a credential event afterwards.
C8_NoEmitAfterSignal ==
  [][\A s \in Calls : srv[s].signalled => EventsBy(s)' = EventsBy(s)]_vars

\* C8, amended: a session whose accept loop has taken the cancellation
\* branch has ended as Cancelled without ever emitting, and an ended loop
\* stays ended and emits nothing; a session that was signalled while a
\* connection was in progress, or whose select takes a ready connection
\* first, can still emit (and then ends as Captured).
C8_CancelledNeverEmits ==
  [][\A s \in Calls :
       /\ srv'[s].st = "cancelled" => EventsBy(s)' = <<>>
       /\ srv[s].st \in {"cancelled", "captured", "failed"} =>
            (srv'[s] = srv[s] /\ EventsBy(s)' = EventsBy(s))]_vars

\* C8 witness: a session was cancelled after connections had been made to
\* it, among them a delivery from its own page
C8_Witness ==
  \E s \in Calls :
    /\ srv[s].st = "cancelled" /\ nconn > 0
    /\ EventsBy(s) = <<>>
    /\ \E t \in Calls : t # s /\ call[t] \notin {"idle", "cancel"}

\* the host of a url as a browser resolves it: after the scheme and any
\* slashes, up to the first '/', '\', '?' or '#'; without the userinfo before
\* the last '@' and the port after ':'; in lower case
UrlScheme(url) == Split(url, Ord(":"))[1]

UrlAuthority(url) ==
  LET rest == Drop(url, Len(UrlScheme(url)) + 2)
      k == FirstIn(rest, (0..255) \ {SLASH, Ord("\\")})
      body == IF k = 0 THEN <<>> ELSE Drop(rest, k)
      e == FirstIn(body, {SLASH, Ord("\\"), QUESTION, Ord("#")})
  IN  IF e = 0 THEN body ELSE SubSeq(body, 1, e - 1)

UrlHost(url) ==
  LET parts == Split(UrlAuthority(url), Ord("@"))
      hostport == parts[Len(parts)]
      host == Split(hostport, Ord(":"))[1]
  IN  [i \in 1..Len(host) |-> IF host[i] \in 65..90 THEN host[i] + 32 ELSE host[i]]

OnTargetDomain(url) ==
  UrlHost(url) = Codes("depop.com") \/ EndsWith(UrlHost(url), Codes(".depop.com"))

\* a step in which navigate_depop_window(u) returns
NavReturns(u) == last' # last /\ last'.op = "navigate" /\ last'.arg = u

\* C4: navigate(url) fails with a domain-validation error, and does not
\* change the browser surface's location, for every url whose host is neither
\* the target domain nor a subdomain of it (stated for calls made while the
\* surface is open, where a wrong acceptance moves it).
C4_OffDomainRejected ==
  [][\A u \in NavUrls :
       (NavReturns(u) /\ window # None /\ ~OnTargetDomain(u)) =>
         (last'.res = "err_domain" /\ window' = window)]_vars

\* C5: navigate(url) with an https url whose host is the target domain or one
\* of its subdomains, called while the capture browser surface is open,
\* succeeds, redirects that surface to exactly the given url and leaves the
\* session state unchanged.
C5_OnDomainAccepted ==
  [][\A u \in NavUrls :
       (NavReturns(u) /\ window # None /\ UrlScheme(u) = Codes("https") /\ OnTargetDomain(u)) =>
         /\ last'.res = "ok"
         /\ window' = Some([window[1] EXCEPT !.loc = u])
         /\ UNCHANGED <<port, shutdown_tx, call, srv, backlog, nconn, events, closers>>]_vars

\* the plausibility rule: the tag prefix and a non-empty identifier without
\* whitespace, or at least 20 characters without whitespace
NoWhitespace(str) == \A i \in 1..Len(str) : ~IsWhitespace(str[i])

IsPlausible(str) ==
  \/ /\ StartsWith(str, TagPrefix)
     /\ Drop(str, Len(TagPrefix) + 1) # <<>>
     /\ NoWhitespace(Drop(str, Len(TagPrefix) + 1))
  \/ Len(str) >= 20 /\ NoWhitespace(str)

\* a step in which the accept task of s has answered a request and decided
\* on the candidate in it
Decides(s) == srv[s].st = "write" /\ srv'[s].st # "write"

Emits(s) == EventsBy(s)' # EventsBy(s)

\* C3: for every decoded candidate string received by a Listening server,
\* the server emits the credential event iff the string is plausible: tagged
\* with a non-empty whitespace-free remainder, or of length >= 20 without
\* whitespace.
C3_EmitsIffPlausible ==
  [][\A s \in Calls :
       (Decides(s) /\ ParseToken(srv[s].buf) # None) =>
         (Emits(s) <=> IsPlausible(ParseToken(srv[s].buf)[1]))]_vars

PlausibleRequestAt(s) ==
  \E i \in 1..Len(backlog) :
    /\ backlog[i].to = s
    /\ backlog[i].data = BrowserRequest(Bearer20)

\* C9: when a request GET /token?t=<percent-encoded candidate> with a
\* plausible candidate reaches the port of a Listening session, exactly one
\* credential event is eventually emitted for that session (unless the
\* listener itself fails).
C9_PlausibleRequestEmits ==
  \A s \in Calls :
    (Listening(s) /\ PlausibleRequestAt(s)) ~>
      (Len(EventsBy(s)) = 1 \/ srv[s].st = "failed")

\* the accept task of s lets go of the connection it has accepted
Closes(s) == srv[s].cur # None /\ srv'[s].cur = None

\* C11: every connection the accept loop has accepted is closed only by the
\* step that writes the fixed 200 response, whatever the connection sent: a
\* valid candidate, an invalid one, a malformed request or no bytes at all.
C11_AlwaysResponds ==
  [][\A s \in Calls : Closes(s) => Decides(s)]_vars

\* the request the accept task of s has read carries no plausible candidate:
\* it is malformed, truncated, or its candidate fails the plausibility rule
InvalidRequest(s) ==
  \/ ParseToken(srv[s].buf) = None
  \/ ~IsPlausible(ParseToken(srv[s].buf)[1])

\* C12: a malformed, truncated or invalid-candidate request on a Listening
\* session's port causes no event and no change of session state; the accept
\* loop stays Listening (back in accept, listener bound, pending connections
\* kept), so that a later valid candidate on the same port is still captured.
C12_InvalidRequestIgnored ==
  [][\A s \in Calls :
       (Decides(s) /\ InvalidRequest(s)) =>
         /\ UNCHANGED <<events, port, shutdown_tx, call, window, closers, backlog, last>>
         /\ srv'[s].st = "select"
         /\ srv'[s].signalled = srv[s].signalled
         /\ \A t \in Calls \ {s} : srv'[t] = srv[t]]_vars

\* C13: when binding the loopback listener fails, open_depop_login returns
\* the error and that invocation has spawned no accept task, opened no login
\* window and stored neither a port nor a cancellation handle of its own.
C13_BindFailureStartsNothing ==
  \A c \in Calls :
    call[c] = "err_bind" =>
      /\ srv[c].st = "none"
      /\ port # Some(c)
      /\ shutdown_tx # Some(c)
      /\ window # None => window[1].owner # c
      /\ EventsBy(c) = <<>>

\* C13 witness: the second invocation has failed to bind after the first one
\* had stored its port
C13_Witness == call[2] = "err_bind" /\ port = Some(1) /\ shutdown_tx = None

\* the login window that invocation s has built is open
SurfaceOpen(s) == window # None /\ window[1].owner = s

\* C14: after a session has emitted the credential event, the login window of
\* that session is eventually closed, without any further command.
C14_SurfaceClosedAfterCapture ==
  \A s \in Calls : (EventsBy(s) # <<>> /\ SurfaceOpen(s)) ~> ~SurfaceOpen(s)

\* C15: no Mutex guard of DepopState is held while its holder is at a
\* suspension point: whoever holds a guard is a command at the statement
\* that took it, whose next step releases it without waiting for anything, so
\* commands wait for each other only for that step and the accept task, which
\* takes no guard, for nobody.
C15_NoGuardAcrossSuspension ==
  \A c \in Calls :
    /\ held.shutdown_tx = Some(c) => call[c] \in {"cancel", "store_tx"}
    /\ held.port = Some(c) => call[c] = "store_port"

\* C15 witness: the first invocation holds the shutdown_tx guard to store its
\* sender while the second is at the statement that takes the same guard
C15_Witness ==
  /\ held.shutdown_tx = Some(1)
  /\ call[1] = "store_tx"
  /\ call[2] = "cancel"

\* C16: after cancellation has been signalled to a Listening server, its
\* accept loop eventually exits and its listener is dropped, whether the loop
\* was waiting in accept or handling a connection at that moment.
C16_CancelledEventuallyExits ==
  \A s \in Calls : (Listening(s) /\ srv[s].signalled) ~> ~Alive(s)

\* the status of the session of invocation s, read off its accept task
Status(s) ==
  IF srv[s].st \in {"none", "bound"} THEN "Idle"
  ELSE IF srv[s].st \in {"select", "read", "write"} THEN "Listening"
  ELSE IF srv[s].st = "captured" THEN "Captured"
  ELSE IF srv[s].st = "cancelled" THEN "Cancelled"
  ELSE "Closed"

\* C17: a session's status only moves forward along Idle -> Listening ->
\* Captured | Cancelled | Closed; a session that has reached Captured or
\* Cancelled never accepts a connection or emits again; a session emits only
\* on becoming Captured, so it undergoes at most one capture in its lifetime.
C17_StatusMovesForward ==
  [][\A s \in Calls :
       /\ \/ Status(s)' = Status(s)
          \/ Status(s) = "Idle" /\ Status(s)' = "Listening"
          \/ Status(s) = "Listening" /\ Status(s)' \in {"Captured", "Cancelled", "Closed"}
       /\ Status(s) \in {"Captured", "Cancelled"} => (srv'[s] = srv[s] /\ ~Emits(s))
       /\ Emits(s) => (Status(s) = "Listening" /\ Status(s)' = "Captured")
       /\ Len(EventsBy(s)') <= 1]_vars

\* C17 witness: the first session was cancelled by the second, which has
\* captured
C17_Witness ==
  /\ Status(1) = "Cancelled"
  /\ Status(2) = "Captured"
  /\ Len(EventsBy(2)) = 1

\* C18: within one document the instrumentation calls sendToServer at most
\* once, whichever of its strategies, the manual rescan included, find a
\* candidate and in whatever order they fire.
C18_AtMostOneDelivery == window # None => window[1].sends <= 1

\* a call of sendToServer in the document the window shows
Sends == window # None /\ window' # None /\ window'[1].sends > window[1].sends

\* C18, amended: every call of sendToServer by a strategy of the init script
\* finds the "already sent" guard clear and sets it, so that these strategies
\* deliver at most once between two manual rescans or page loads; the only
\* other call is the one a manual rescan makes after clearing the guard, and
\* a step makes one call at most.
C18_GuardedDelivery ==
  [][Sends =>
       /\ window'[1].sends = window[1].sends + 1
       /\ \/ ~window[1].sent /\ window'[1].sent
          \/ last' = ScanResult("ok") /\ ~window'[1].sent]_vars

\* C18 witness: a rescan has delivered after a strategy of the init script
\* had
C18_Witness ==
  /\ window # None
  /\ window[1].sends = 2
  /\ ~window[1].sent
  /\ last = ScanResult("ok")

\* the sources of the automatic identifier recovery in their documented
\* order: current URL path, hydration data, navigation links, global state
SourceOrder(src) == <<src.url, src.next, src.dom, src.glob>>

\* the first source in that order that yields something, None when none does
FirstYield(src) ==
  LET hits == {i \in 1..4 : SourceOrder(src)[i] # None}
  IN  IF hits = {} THEN None
      ELSE SourceOrder(src)[CHOOSE i \in hits : \A j \in hits : i <= j]

\* the requests a step adds to the backlog
NewRequests == {backlog'[i].data : i \in (Len(backlog) + 1)..Len(backlog')}

\* what C19 says of a step in which autoCapture's timeout runs
TimeoutPicksFirst ==
  \A src \in Sources :
    autoCaptureTimeout(src, Len(backlog') - Len(backlog)) =>
      /\ NewRequests \subseteq
           IF FirstYield(src) = None \/ window[1].sent THEN {}
           ELSE {BrowserRequest(TagPrefix \o FirstYield(src)[1])}
      /\ (window'[1].sent /\ ~window[1].sent) <=>
           /\ ~window[1].sent
           /\ FirstYield(src) # None
           /\ NoWhitespace(FirstYield(src)[1])

\* what C19 says of a step in which the load event runs autoCapture
LoadDoesNothing ==
  \A login \in BOOLEAN :
    (autoCapture(login) /\ (login \/ window[1].sent)) =>
      window' = Some([window[1] EXCEPT !.auto = "done"])

\* C19: when autoCapture's timeout runs, the first source in the order URL
\* path, hydration data, navigation links, global state that yields an
\* identifier determines the tagged candidate delivered, whatever the later
\* sources hold; nothing is delivered when a candidate was already sent; and
\* on a login or signup path, or with a candidate already sent at the load
\* event, autoCapture does nothing and sets no timeout.
C19_FirstSourceWins ==
  [][/\ (/\ window # None /\ window[1].auto = "pending"
         /\ window' # None /\ window'[1].auto = "done") => TimeoutPicksFirst
     /\ (window # None /\ window[1].auto = "none") => LoadDoesNothing]_vars

\* C19 witness: with no slug in the URL path, the hydration data have
\* determined the candidate delivered
C19_Witness ==
  /\ window # None
  /\ window[1].auto = "done"
  /\ window[1].sends = 1
  /\ backlog # <<>>
  /\ backlog[1].data = BrowserRequest(TagPrefix \o Codes("bob"))

\* the candidates the browser instrumentation can hand to sendToServer
Deliverable ==
  PageTokens \cup {TagPrefix \o f[1] : f \in ScanFinds \ {None}}
             \cup {TagPrefix \o src.glob[1] : src \in {x \in Sources : x.glob # None}}

\* C20: captureToken's check and the accept loop's check accept the same
\* candidate strings, and every request the init script or the rescan script
\* delivers carries a candidate that passed captureToken's check.
C20_ChecksAgree ==
  [][/\ \A t \in PageTokens : BrowserAccepts(t) <=> HostAccepts(t)
     /\ \A r \in NewRequests :
          \E t \in Deliverable : r = BrowserRequest(t) /\ BrowserAccepts(t)]_vars

\* C21: for every candidate that passes the plausibility rule, the accept
\* task that has read the request the browser built for it emits exactly that
\* candidate: url_decode undoes the browser's percent-encoding.
C21_RoundTrip ==
  [][\A t \in TripTokens :
       (/\ IsPlausible(t)
        /\ srv[1].buf = BrowserRequest(t)
        /\ Decides(1)) =>
         /\ ParseToken(srv[1].buf) = Some(t)
         /\ Emits(1)
         /\ events'[Len(events')].payload = t]_vars

\* the delayed close scheduled by the capture of s runs
DelayedCloseBy(s) == s \in closers /\ s \notin closers'

\* C22: the delayed close that a session's capture has scheduled closes no
\* login window but that session's own: a window that a later invocation has
\* built in the meantime is left open.
C22_ClosesOwnSurfaceOnly ==
  [][\A s \in Calls :
       (DelayedCloseBy(s) /\ window # None) => window[1].owner = s]_vars

\* invocation c of open_depop_login has returned
Returned(c) == call[c] \in {"ok", "err_bind", "err_window"}

\* the accept task of s is running and its shutdown receiver has not resolved
Remaining(s) == Listening(s) /\ ~srv[s].signalled

\* C23: once both of two overlapping open_depop_login invocations have
\* returned, at most one accept task remains that is running and has not
\* been told to stop, and the port and the sender stored in DepopState are
\* the ones of that task.
C23_OneServerOwnsState ==
  (\A c \in Calls : Returned(c)) =>
    /\ \A a, b \in Calls : (Remaining(a) /\ Remaining(b)) => a = b
    /\ \A s \in Calls : Remaining(s) => (port = Some(s) /\ shutdown_tx = Some(s))

\* invocation c of open_depop_login returns an error in this step
ReturnsError(c) ==
  /\ call[c] \notin {"err_bind", "err_window"}
  /\ call'[c] \in {"err_bind", "err_window"}

\* C24: when open_depop_login returns an error, for a failed bind or a failed
\* window build, the accept task of that invocation is not running, and a
\* port stored in DepopState is the port of an accept task that is.
C24_ErrorLeavesNoListener ==
  [][\A c \in Calls :
       ReturnsError(c) =>
         /\ ~Listening(c)'
         /\ \A s \in Calls : port' = Some(s) => Listening(s)']_vars

\* every accept task that is running and has not been told to stop is the
\* one whose sender DepopState stores
OrphanFree == \A s \in Calls : Remaining(s) => shutdown_tx = Some(s)

\* a step that takes the sender of s out of DepopState, or puts another in
\* its place, resolves the receiver of s
ReplaceSignals ==
  \A s \in Calls :
    (shutdown_tx = Some(s) /\ shutdown_tx' # Some(s)) => srv'[s].signalled

SilentClientAt(s) ==
  /\ srv[s].st = "read"
  /\ srv[s].cur[1].open
  /\ srv[s].cur[1].data = <<>>

\* C26: a local client that has connected to the port of a Listening session
\* and sends nothing does not prevent the capture: a plausible candidate that
\* the page has sent on another connection meanwhile is eventually emitted
\* (unless the listener itself fails).
C26_SilentClientCannotBlock ==
  \A s \in Calls :
    (SilentClientAt(s) /\ PlausibleRequestAt(s)) ~>
      (EventsBy(s) # <<>> \/ srv[s].st = "failed")

====
